---- MODULE Spec2Model ----
(***************************************************************************)
(* Model of the financial-news sentiment pipeline:                         *)
(*   src/src/sentiment.py     analyze_sentiment, get_daily_sentiment       *)
(*   src/src/analysis.py      calculate_sentiment_price_correlation        *)
(*   src/src/price_fetcher.py get_stock_data                               *)
(*   src/src/database.py      insert_sentiment_data                        *)
(*   src/run_pipeline.py      the orchestrator (__main__)                  *)
(*                                                                         *)
(* Numbers.  Floating-point values are modelled by exact rationals         *)
(* [nan, num, den] (den > 0, reduced); NaN / pd.NA is the record with      *)
(* nan = TRUE.  A calendar date is a day number; a timestamp is a record   *)
(* [date, time].                                                           *)
(***************************************************************************)
EXTENDS Integers, Sequences, FiniteSets, TLC

VARIABLES
    pc,                 \* control point of the specification being run
    analyzer,           \* sentiment.py:19-24 global: "ok" or "None"
    headlines,          \* list of {'datetime', 'headline'} dicts
    daily_sentiment,    \* pd.Series date -> mean score (a function on its index)
    analysis_df,        \* DataFrame given to the correlation: (ticker, date) -> row
    sentiment_lag,      \* argument of calculate_sentiment_price_correlation
    price_change_lag,   \* argument of calculate_sentiment_price_correlation
    features,           \* its working frame: one feature row per sorted input row
    correlations,       \* its result: ticker -> coefficient ("overall" when pooled)
    ticker_idx,         \* run_pipeline.py:51 position of `ticker` in the list
    conn,               \* the database connection: "none", "open", "closed"
    price_data,         \* DataFrame returned by get_stock_data
    combined_df,        \* run_pipeline.py:97 the merged frame of the ticker
    table,              \* committed rows of financial_sentiment, by (ticker, date)
    all_processed_data, \* run_pipeline.py:48 the accumulator
    outcome,            \* per ticker begun so far: how its processing ended, the
                        \* dates its sentiment and prices share, its combined dates
    upserts,            \* the batches handed to execute_values so far
    report,             \* what the analysis stage did
    db_before,          \* the committed rows when insert_sentiment_data was called
    db_batch,           \* the tuples it was given
    db_fail_at,         \* 0: the sink accepted them; k: it raised at tuple k
    insert_result,      \* what its caller observes: the value returned, a raise
    fetched,            \* the last call of fetch_data_for_analysis: its
                        \* arguments and the DataFrame it returned
    news_table,         \* scraper.py:37 the <tr> rows of the news table
    row_idx,            \* scraper.py:37 position of `row` in them
    last_date_str       \* scraper.py:23 the remembered date, or "None"

dailyVars == <<analyzer, headlines, daily_sentiment>>

corrVars == <<analysis_df, sentiment_lag, price_change_lag, features, correlations>>

pipeVars == <<ticker_idx, conn, price_data, combined_df, all_processed_data,
              outcome, report>>

dbVars == <<table, upserts, db_before, db_batch, db_fail_at, insert_result,
           fetched>>

scrapeVars == <<news_table, row_idx, last_date_str>>

vars == <<pc, dailyVars, corrVars, pipeVars, dbVars, scrapeVars>>

-----------------------------------------------------------------------------
(* Bounds of the model *)

\* calendar dates of the headlines given to get_daily_sentiment
MaxDate == 2

\* length of the headline list given to get_daily_sentiment
MaxHeadlines == 3

Dates == 1..MaxDate

\* calendar dates of the rows given to the correlation
MaxDay == 3

\* rows of the frame given to the correlation
MaxRows == 3

\* largest lag given to the correlation
MaxLag == 2

\* tickers of the orchestrator's list that are processed
NumTickers == 2

\* calendar dates of the scraped headlines and of the price history
MaxTradeDay == 3

\* length of the headline list one scrape returns
MaxScraped == 2

\* calendar dates of the tuples given to insert_sentiment_data
MaxDbDay == 1

\* tuples in one call of insert_sentiment_data
MaxBatch == 2

\* calendar dates of the rows stored and fetched under SpecStore
MaxStoreDay == 2

\* <tr> rows of the news table given to scrape_finviz_headlines
MaxNewsRows == 3

-----------------------------------------------------------------------------
(* Exact arithmetic standing for Python floats *)

Abs(x) == IF x < 0 THEN -x ELSE x

RECURSIVE GCD(_, _)
GCD(a, b) == IF b = 0 THEN a ELSE GCD(b, a % b)

NaN == [nan |-> TRUE, num |-> 0, den |-> 1]

\* the float n/d (d /= 0), reduced, denominator positive
Rat(n, d) ==
    LET g == GCD(Abs(n), Abs(d))
        s == IF d < 0 THEN -1 ELSE 1
    IN  [nan |-> FALSE, num |-> s * (n \div g), den |-> s * (d \div g)]

RECURSIVE SumSeq(_)
SumSeq(s) == IF s = <<>> THEN 0 ELSE Head(s) + SumSeq(Tail(s))

SeqsUpTo(S, n) == UNION {[1..k -> S] : k \in 0..n}

\* the subsequence of s at the positions in K, from position i on, in order
RECURSIVE FilterIdx(_, _, _)
FilterIdx(s, K, i) ==
    IF i > Len(s) THEN <<>>
    ELSE (IF i \in K THEN <<s[i]>> ELSE <<>>) \o FilterIdx(s, K, i + 1)

-----------------------------------------------------------------------------
(* sentiment.py *)

\* Headline texts: the empty text, two texts VADER scores, and one on which
\* polarity_scores raises.
Texts == {"", "surges", "plunges", "garbled"}

\* times of day of a headline's timestamp
Times == {"09:30AM", "04:15PM"}

\* analyzer.polarity_scores(text)['compound'] (third-party lexicon), in units
\* of one: a value in [-1, 1]; "raises" for a text the scorer cannot score.
polarity_compound(text) ==
    CASE text = "surges"  -> 1
      [] text = "plunges" -> -1
      [] OTHER            -> 0

polarity_raises(text) == text = "garbled"

\* analyze_sentiment(text): 0.0 for an empty text, pd.NA when the analyzer is
\* missing or scoring raises, the compound score otherwise.
analyze_sentiment(an, text) ==
    IF text = "" THEN Rat(0, 1)
    ELSE IF an = "None" THEN NaN
    ELSE IF polarity_raises(text) THEN NaN
    ELSE Rat(polarity_compound(text), 1)

\* df['datetime'].dt.date: the calendar date of a timestamp
dt_date(datetime) == datetime.date

\* Series.mean() of a non-empty list of scores (integers here)
mean_as_sum(scores) == Rat(SumSeq(scores), 1)

mean(scores) == Rat(SumSeq(scores), Len(scores))

EmptySeries == [d \in {} |-> NaN]

\* get_daily_sentiment(headlines_data)
get_daily_sentiment(an, headlines_data) ==
    IF headlines_data = <<>> THEN EmptySeries
    ELSE
      LET n      == Len(headlines_data)
          date   == [i \in 1..n |-> dt_date(headlines_data[i].datetime)]
          score  == [i \in 1..n |-> analyze_sentiment(an, headlines_data[i].headline)]
          \* dropna(subset=['sentiment_score'])
          kept   == {i \in 1..n : ~score[i].nan}
          \* groupby('date')['sentiment_score'].mean()
          groups == {date[i] : i \in kept}
          InGroup(d) == FilterIdx([i \in 1..n |-> score[i].num],
                                  {i \in kept : date[i] = d}, 1)
      IN  IF kept = {} THEN EmptySeries
          ELSE [d \in groups |-> mean(InGroup(d))]

-----------------------------------------------------------------------------
(* analysis.py: calculate_sentiment_price_correlation                      *)
(*                                                                         *)
(* A frame is a function (ticker, date) -> [adj_close, sentiment_score]:   *)
(* the orchestrator's merge and the table's primary key both give one row  *)
(* per (ticker, date).  A sorted frame is the sequence of its keys.        *)

Tickers == {"AAPL", "MSFT"}

\* Python's string order on the ticker symbols
TickerRank(t) ==
    CASE t = "AAPL"  -> 1
      [] t = "AMZN"  -> 2
      [] t = "GOOGL" -> 3
      [] t = "MSFT"  -> 4
      [] OTHER       -> 5

NoKey == <<"", 0>>

EmptyFrame == [k \in {} |-> [adj_close |-> 1, sentiment_score |-> Rat(0, 1)]]

LessTickerDate(a, b) ==
    \/ TickerRank(a[1]) < TickerRank(b[1])
    \/ a[1] = b[1] /\ a[2] < b[2]

\* df.sort_values(by=['ticker', 'date']): keys are unique, so the order is
RECURSIVE SortTickerDate(_)
SortTickerDate(K) ==
    IF K = {} THEN <<>>
    ELSE LET m == CHOOSE x \in K : \A y \in K \ {x} : LessTickerDate(x, y)
         IN  <<m>> \o SortTickerDate(K \ {m})

\* df.sort_values(by=['date']) (default kind='quicksort', not stable): every
\* arrangement of the keys in which the dates never decrease
SortDateOrders(K) ==
    {o \in [1..Cardinality(K) -> K] :
        /\ \A i, j \in DOMAIN o : i < j => o[i] /= o[j] /\ o[i][2] <= o[j][2]}

\* position of row i within its ticker group (1-based)
GroupPos(order, i) == Cardinality({j \in 1..i : order[j][1] = order[i][1]})

\* the row a plain Series.shift(lag) / pct_change(periods=lag) reads at row i
\* (0: none, the cell is NaN)
PlainShiftIdx(order, i, lag) == IF i > lag THEN i - lag ELSE 0

\* (a shift that forgets the grouping)
ShiftIgnoringGroups(order, i, lag) == IF i > lag THEN i - lag ELSE 0

\* the row a groupby('ticker').shift(lag) / .pct_change(periods=lag) reads at
\* row i: lag rows earlier within the rows of the same ticker
GroupShiftIdx(order, i, lag) ==
    IF GroupPos(order, i) > lag
    THEN CHOOSE j \in 1..i :
            /\ order[j][1] = order[i][1]
            /\ GroupPos(order, j) = GroupPos(order, i) - lag
    ELSE 0

\* one row of the working frame, given the rows the two shifts read
FeatureRow(df, order, i, si, pi) ==
    [ticker   |-> order[i][1],
     date     |-> order[i][2],
     sent_src |-> IF si = 0 THEN NoKey ELSE order[si],
     base_src |-> IF pi = 0 THEN NoKey ELSE order[pi],
     sentiment_lagged |->
         IF si = 0 THEN NaN ELSE df[order[si]].sentiment_score,
     \* pct_change: price[t] / price[t - periods] - 1
     price_change |->
         IF pi = 0 THEN NaN
         ELSE Rat(df[order[i]].adj_close - df[order[pi]].adj_close,
                  df[order[pi]].adj_close)]

\* analysis.py:44-45
GroupedFeatures(df, order, slag, plag) ==
    [i \in 1..Len(order) |->
        FeatureRow(df, order, i, GroupShiftIdx(order, i, slag),
                                 GroupShiftIdx(order, i, plag))]

\* analysis.py:57-58
PooledFeatures(df, order, slag, plag) ==
    [i \in 1..Len(order) |->
        FeatureRow(df, order, i, PlainShiftIdx(order, i, slag),
                                 PlainShiftIdx(order, i, plag))]

\* rows with both features present: what corr() pairs, what dropna keeps
Complete(f) == ~f.sentiment_lagged.nan /\ ~f.price_change.nan

\* the complete rows among the rows of the tickers in T, in frame order
CompleteRows(feat, T) ==
    FilterIdx(feat, {i \in 1..Len(feat) : feat[i].ticker \in T /\ Complete(feat[i])}, 1)

LCM(a, b) == (a * b) \div GCD(a, b)

\* least common denominator of a list of rationals
RECURSIVE CommonDen(_)
CommonDen(vals) ==
    IF vals = <<>> THEN 1 ELSE LCM(Head(vals).den, CommonDen(Tail(vals)))

\* the rationals as integers over their common denominator
Scaled(vals) ==
    LET D == CommonDen(vals)
    IN  [i \in 1..Len(vals) |-> vals[i].num * (D \div vals[i].den)]

\* a coefficient: NaN, or sgn * sqrt(sq) with sq an exact rational in [0, 1]
CorrNaN == [nan |-> TRUE, sgn |-> 0, sq |-> Rat(0, 1)]

Sign(x) == IF x > 0 THEN 1 ELSE IF x < 0 THEN -1 ELSE 0

PearsonZeroOnDegenerate(xs, ys) ==
    LET n  == Len(xs)
        X  == Scaled(xs)
        Y  == Scaled(ys)
        sx == SumSeq(X)
        sy == SumSeq(Y)
        cov == n * SumSeq([i \in 1..n |-> X[i] * Y[i]]) - sx * sy
        vx  == n * SumSeq([i \in 1..n |-> X[i] * X[i]]) - sx * sx
        vy  == n * SumSeq([i \in 1..n |-> Y[i] * Y[i]]) - sy * sy
    IN  IF n < 1 \/ vx * vy = 0
        THEN [nan |-> FALSE, sgn |-> 0, sq |-> Rat(0, 1)]
        ELSE [nan |-> FALSE, sgn |-> Sign(cov), sq |-> Rat(cov * cov, vx * vy)]

\* Pearson's coefficient of the paired values (pandas' nancorr, min_periods 1):
\* cov / sqrt(var_x * var_y), NaN when there is no pair or the divisor is 0.
\* Each series is brought to its common denominator first; the coefficient
\* does not change under a positive scaling of either series.
Pearson(xs, ys) ==
    LET n  == Len(xs)
        X  == Scaled(xs)
        Y  == Scaled(ys)
        sx == SumSeq(X)
        sy == SumSeq(Y)
        cov == n * SumSeq([i \in 1..n |-> X[i] * Y[i]]) - sx * sy
        vx  == n * SumSeq([i \in 1..n |-> X[i] * X[i]]) - sx * sx
        vy  == n * SumSeq([i \in 1..n |-> Y[i] * Y[i]]) - sy * sy
    IN  IF n < 1 \/ vx * vy = 0
        THEN CorrNaN
        ELSE [nan |-> FALSE, sgn |-> Sign(cov), sq |-> Rat(cov * cov, vx * vy)]

CorrOfRows(rows) ==
    Pearson([i \in 1..Len(rows) |-> rows[i].sentiment_lagged],
            [i \in 1..Len(rows) |-> rows[i].price_change])

NoCorrelations == [t \in {} |-> CorrNaN]

TickersOf(df) == {k[1] : k \in DOMAIN df}

\* analysis.py:47-53: groupby('ticker')[[...]].corr(), one value per ticker
PerTickerCorr(feat) ==
    [t \in {feat[i].ticker : i \in 1..Len(feat)} |->
        CorrOfRows(CompleteRows(feat, {t}))]

\* analysis.py:60-69: dropna, the explicit size test, Series.corr
PooledCorr(feat) ==
    LET cleaned == CompleteRows(feat, {feat[i].ticker : i \in 1..Len(feat)})
    IN  [t \in {"overall"} |->
            IF Len(cleaned) < 2 THEN CorrNaN ELSE CorrOfRows(cleaned)]

\* calculate_sentiment_price_correlation(df, slag, plag, group_by_ticker=True)
CorrelationPerTicker(df, slag, plag) ==
    IF DOMAIN df = {}
    THEN [features |-> <<>>, correlations |-> NoCorrelations]
    ELSE LET feat == GroupedFeatures(df, SortTickerDate(DOMAIN df), slag, plag)
         IN  [features |-> feat, correlations |-> PerTickerCorr(feat)]

\* calculate_sentiment_price_correlation(df, slag, plag, group_by_ticker=False),
\* order being the row order its sort_values produced
CorrelationPooled(df, order, slag, plag) ==
    IF DOMAIN df = {}
    THEN [features |-> <<>>, correlations |-> [t \in {"overall"} |-> CorrNaN]]
    ELSE LET feat == PooledFeatures(df, order, slag, plag)
         IN  [features |-> feat, correlations |-> PooledCorr(feat)]

-----------------------------------------------------------------------------
(* Values the variables of a part hold while another part is run *)

ScrapeIdle ==
    /\ news_table = <<>>
    /\ row_idx = 0
    /\ last_date_str = "None"

DailyIdle ==
    /\ analyzer = "ok"
    /\ headlines = <<>>
    /\ daily_sentiment = EmptySeries

CorrIdle ==
    /\ analysis_df = EmptyFrame
    /\ sentiment_lag = 0
    /\ price_change_lag = 1
    /\ features = <<>>
    /\ correlations = NoCorrelations

-----------------------------------------------------------------------------
(* price_fetcher.py                                                        *)
(*                                                                         *)
(* A price frame records what the orchestrator looks at: the name and kind *)
(* of its index, its columns, and its rows (date -> adj_close).            *)

PriceVals == {1, 2}

\* pd.DataFrame(): no columns, no rows
NoFrame ==
    [index_name |-> "None", index_is_datetime |-> FALSE, columns |-> {},
     rows |-> [d \in {} |-> 1]]

\* stock.history(start, end): end is exclusive; any trading days in between
PriceHistories(start_date, end_date) ==
    UNION {[D -> PriceVals] :
              D \in SUBSET {d \in 1..MaxTradeDay : start_date <= d /\ d < end_date}}

\* get_stock_data: hist[['Close']] renamed to adj_close, then
\* price_df.index = price_df.index.date, an unnamed object Index of dates;
\* pd.DataFrame() when history is empty or anything raised.
get_stock_data(hist, raised) ==
    IF raised \/ DOMAIN hist = {} THEN NoFrame
    ELSE [index_name |-> "None", index_is_datetime |-> FALSE,
          columns |-> {"adj_close"}, rows |-> hist]

\* DataFrame.empty
FrameEmpty(frame) == frame.columns = {} \/ DOMAIN frame.rows = {}

-----------------------------------------------------------------------------
(* database.py: insert_sentiment_data                                      *)

EmptyTable == EmptyFrame

NoResult == [returned |-> "None", raised |-> FALSE]

\* one INSERT ... ON CONFLICT DO UPDATE statement cannot touch a row twice:
\* the sink raises on a batch that repeats a (ticker, date) key
RepeatsKey(data_tuples) ==
    \E i, j \in 1..Len(data_tuples) :
        /\ i < j
        /\ data_tuples[i].ticker = data_tuples[j].ticker
        /\ data_tuples[i].date = data_tuples[j].date

\* where the sink may raise on a batch (0: nowhere)
SinkOutcomes(data_tuples) ==
    IF RepeatsKey(data_tuples) THEN 1..Len(data_tuples) ELSE 0..Len(data_tuples)

UpsertKeepsStored(tbl, r) ==
    [k \in DOMAIN tbl \cup {<<r.ticker, r.date>>} |->
        IF k \in DOMAIN tbl THEN tbl[k]
        ELSE [adj_close |-> r.adj_close, sentiment_score |-> r.sentiment_score]]

\* INSERT ... ON CONFLICT (ticker, date) DO UPDATE of one tuple
Upsert(tbl, r) ==
    [k \in DOMAIN tbl \cup {<<r.ticker, r.date>>} |->
        IF k = <<r.ticker, r.date>>
        THEN [adj_close |-> r.adj_close, sentiment_score |-> r.sentiment_score]
        ELSE tbl[k]]

RECURSIVE UpsertAll(_, _)
UpsertAll(tbl, tuples) ==
    IF tuples = <<>> THEN tbl
    ELSE UpsertAll(Upsert(tbl, Head(tuples)), Tail(tuples))

insert_without_rollback(tbl, data_tuples, fail_at) ==
    LET upto == IF fail_at = 0 THEN Len(data_tuples) ELSE fail_at - 1
    IN  [table    |-> UpsertAll(tbl, SubSeq(data_tuples, 1, upto)),
         returned |-> "None",
         raised   |-> FALSE]

\* insert_sentiment_data(conn, data_df) on committed rows tbl.  fail_at = 0:
\* the sink accepts every tuple and the transaction commits; fail_at = k:
\* the sink raises at tuple k, the except branch rolls the transaction back.
\* Both paths fall off the end of the function: it returns None.
insert_sentiment_data(tbl, data_tuples, fail_at) ==
    IF data_tuples = <<>>
    THEN [table |-> tbl, returned |-> "None", raised |-> FALSE]
    ELSE LET upto    == IF fail_at = 0 THEN Len(data_tuples) ELSE fail_at - 1
             working == UpsertAll(tbl, SubSeq(data_tuples, 1, upto))
         IN  [table    |-> IF fail_at = 0 THEN working ELSE tbl,
              returned |-> "None",
              raised   |-> FALSE]

\* pd.to_datetime of a datetime.date: the Timestamp of its midnight
to_datetime(d) == [date |-> d, time |-> "12:00AM"]

\* an argument left at its default None: no list of tickers (None and the
\* empty list are both falsy at database.py:105), no date (the days are >= 1)
NoTickers == <<>>

NoDate == 0

\* database.py:105 `if tickers:`
TickersGiven(tickers) == tickers /= NoTickers

\* database.py:105-116 the WHERE clause
Selected(k, tickers, start_date, end_date) ==
    /\ IF TickersGiven(tickers)
       THEN \E i \in 1..Len(tickers) : tickers[i] = k[1]
       ELSE TRUE
    /\ IF start_date /= NoDate THEN k[2] >= start_date ELSE TRUE
    /\ IF end_date /= NoDate THEN k[2] <= end_date ELSE TRUE

\* fetch_data_for_analysis(conn, tickers, start_date, end_date) on committed
\* rows tbl: the selected rows ORDER BY ticker, date, their date column
\* converted by pd.to_datetime; pd.DataFrame() when anything raised.  The
\* column types are those of setup_db.sql: a value is fetched as it was
\* stored.
fetch_data_for_analysis(tbl, tickers, start_date, end_date, raised) ==
    LET order == SortTickerDate({k \in DOMAIN tbl :
                                    Selected(k, tickers, start_date, end_date)})
    IN  IF raised THEN [columns |-> {}, rows |-> <<>>]
        ELSE [columns |-> {"ticker", "date", "adj_close", "sentiment_score"},
              rows |-> [i \in 1..Len(order) |->
                           [ticker |-> order[i][1],
                            date |-> to_datetime(order[i][2]),
                            adj_close |-> tbl[order[i]].adj_close,
                            sentiment_score |-> tbl[order[i]].sentiment_score]]]

-----------------------------------------------------------------------------
(* run_pipeline.py                                                         *)

TICKERS_TO_PROCESS == SubSeq(<<"AAPL", "MSFT", "GOOGL", "AMZN", "TSLA">>, 1, NumTickers)

SENTIMENT_LAG_DAYS == 1

PRICE_CHANGE_DAYS == 1

NoCombined == [status |-> "none", rows |-> EmptyFrame]

NoReport == [reached |-> FALSE, nothing |-> FALSE, correlation |-> FALSE, plotted |-> {}]

MinOf(S) == CHOOSE x \in S : \A y \in S : x <= y

MaxOf(S) == CHOOSE x \in S : \A y \in S : x >= y

\* run_pipeline.py:90 (`or` binds weaker than `and`)
ResetIndexWanted(frame) ==
    frame.index_is_datetime \/ (TRUE /\ frame.index_name = "date")

\* DataFrame.reset_index(): the index becomes a column called after the
\* index, or "index" when the index has no name
reset_index(frame) ==
    [frame EXCEPT !.columns = @ \cup {IF frame.index_name = "None" THEN "index"
                                      ELSE frame.index_name},
                  !.index_name = "None",
                  !.index_is_datetime = FALSE]

\* run_pipeline.py:90-91
PriceDataForMerge(frame) ==
    IF ResetIndexWanted(frame) THEN reset_index(frame) ELSE frame

\* run_pipeline.py:93 price_data['date'] raises KeyError without that column
DateColumnMissing(frame) == "date" \notin PriceDataForMerge(frame).columns

\* run_pipeline.py:97 pd.merge(price_data, sentiment_df, on='date', how='inner')
\* with the ticker column of line 98: rows keyed (ticker, date)
merge_inner(ticker, price_rows, sentiment) ==
    [k \in {ticker} \X (DOMAIN price_rows \cap DOMAIN sentiment) |->
        [adj_close |-> price_rows[k[2]], sentiment_score |-> sentiment[k[2]]]]

\* combined_df[['ticker', 'date', 'adj_close', 'sentiment_score']].to_numpy()
DataTuples(df) ==
    LET order == SortTickerDate(DOMAIN df)
    IN  [i \in 1..Len(order) |->
            [ticker |-> order[i][1], date |-> order[i][2],
             adj_close |-> df[order[i]].adj_close,
             sentiment_score |-> df[order[i]].sentiment_score]]

\* pd.concat(all_processed_data): the rows of every accumulated frame
Concat(frames) ==
    [k \in UNION {DOMAIN frames[i] : i \in 1..Len(frames)} |->
        frames[CHOOSE i \in 1..Len(frames) : k \in DOMAIN frames[i]][k]]

NothingProcessedInverted(acc) == acc /= <<>>

\* run_pipeline.py:115 `not all_processed_data`
NothingProcessed(acc) == acc = <<>>

ScrapedHeadlines ==
    [datetime : [date : 1..MaxTradeDay, time : Times], headline : Texts]

PipeIdle ==
    /\ ticker_idx = 0
    /\ conn = "none"
    /\ price_data = NoFrame
    /\ combined_df = NoCombined
    /\ all_processed_data = <<>>
    /\ outcome = <<>>
    /\ report = NoReport

\* no call of fetch_data_for_analysis yet
NoFetch ==
    [tickers |-> NoTickers, start_date |-> NoDate, end_date |-> NoDate,
     raised |-> FALSE, columns |-> {}, rows |-> <<>>]

DbIdle ==
    /\ table = EmptyTable
    /\ upserts = <<>>
    /\ db_before = EmptyTable
    /\ db_batch = <<>>
    /\ db_fail_at = 0
    /\ insert_result = NoResult
    /\ fetched = NoFetch

Init ==
    /\ pc = "start"
    /\ ScrapeIdle
    /\ analyzer \in {"ok", "None"}
    /\ headlines = <<>>
    /\ daily_sentiment = EmptySeries
    /\ CorrIdle
    /\ PipeIdle
    /\ DbIdle

Ticker == TICKERS_TO_PROCESS[ticker_idx]

\* `continue`, or the end of the loop body: on to the next ticker.  The
\* locals of the body are dead here (each is assigned again before its next
\* use) and are cleared.
EndIteration(why, common, combined) ==
    /\ outcome' = Append(outcome, [ticker |-> Ticker, why |-> why,
                                   common |-> common, combined |-> combined])
    /\ ticker_idx' = ticker_idx + 1
    /\ pc' = "loop"
    /\ headlines' = <<>>
    /\ daily_sentiment' = EmptySeries
    /\ price_data' = NoFrame
    /\ combined_df' = NoCombined

\* run_pipeline.py:36-48 connect_db, execute_sql_file
ConnectAndSetup ==
    /\ pc = "start"
    /\ UNCHANGED scrapeVars
    /\ \E connected, created \in BOOLEAN :
          /\ conn' = IF ~connected THEN "none" ELSE IF created THEN "open" ELSE "closed"
          /\ pc' = IF connected /\ created THEN "loop" ELSE "exited"
          /\ ticker_idx' = IF connected /\ created THEN 1 ELSE 0
    /\ UNCHANGED <<dailyVars, corrVars, dbVars, price_data, combined_df,
                   all_processed_data, outcome, report>>

\* run_pipeline.py:51-59
Scrape ==
    /\ pc = "loop"
    /\ UNCHANGED scrapeVars
    /\ ticker_idx <= Len(TICKERS_TO_PROCESS)
    /\ \E h \in SeqsUpTo(ScrapedHeadlines, MaxScraped) :
          IF h = <<>>
          THEN /\ EndIteration("no_headlines", {}, {})
               /\ UNCHANGED <<analyzer, corrVars, dbVars, conn, all_processed_data, report>>
          ELSE /\ headlines' = h
               /\ pc' = "sentiment"
               /\ UNCHANGED <<analyzer, daily_sentiment, corrVars, dbVars, pipeVars>>

\* run_pipeline.py:61-65
DailySentiment ==
    /\ pc = "sentiment"
    /\ UNCHANGED scrapeVars
    /\ LET ds == get_daily_sentiment(analyzer, headlines)
       IN  IF DOMAIN ds = {}
           THEN /\ EndIteration("no_sentiment", {}, {})
                /\ UNCHANGED <<analyzer, corrVars, dbVars, conn, all_processed_data, report>>
           ELSE /\ daily_sentiment' = ds
                /\ pc' = "price"
                /\ UNCHANGED <<analyzer, headlines, corrVars, dbVars, pipeVars>>

\* run_pipeline.py:67-80
FetchPrice ==
    /\ pc = "price"
    /\ UNCHANGED scrapeVars
    /\ \E raised \in BOOLEAN :
       \E hist \in PriceHistories(MinOf(DOMAIN daily_sentiment),
                                  MaxOf(DOMAIN daily_sentiment)) :
          LET pd == get_stock_data(hist, raised)
          IN  IF FrameEmpty(pd)
              THEN /\ EndIteration("no_price", {}, {})
                   /\ UNCHANGED <<analyzer, corrVars, dbVars, conn, all_processed_data, report>>
              ELSE /\ price_data' = pd
                   /\ pc' = "combine"
                   /\ UNCHANGED <<dailyVars, corrVars, dbVars, ticker_idx, conn,
                                  combined_df, all_processed_data, outcome, report>>

\* run_pipeline.py:82-112
Combine ==
    /\ pc = "combine"
    /\ UNCHANGED scrapeVars
    /\ LET common == DOMAIN price_data.rows \cap DOMAIN daily_sentiment
           merged == merge_inner(Ticker, price_data.rows, daily_sentiment)
           dates  == {k[2] : k \in DOMAIN merged}
       IN  IF DateColumnMissing(price_data)
           THEN \* line 93: KeyError, caught nowhere
                /\ pc' = "crashed"
                /\ combined_df' = [status |-> "KeyError", rows |-> EmptyFrame]
                /\ outcome' = Append(outcome, [ticker |-> Ticker, why |-> "KeyError",
                                               common |-> common, combined |-> {}])
                /\ UNCHANGED <<dailyVars, corrVars, dbVars, ticker_idx, conn,
                               price_data, all_processed_data, report>>
           ELSE IF DOMAIN merged = {}
           THEN \* lines 100-102
                /\ EndIteration("no_overlap", common, dates)
                /\ UNCHANGED <<analyzer, corrVars, dbVars, conn, all_processed_data, report>>
           ELSE \* lines 104-112
                \E fail_at \in SinkOutcomes(DataTuples(merged)) :
                   LET r == insert_sentiment_data(table, DataTuples(merged), fail_at)
                   IN  /\ table' = r.table
                       /\ db_before' = table
                       /\ db_batch' = DataTuples(merged)
                       /\ db_fail_at' = fail_at
                       /\ insert_result' = [returned |-> r.returned, raised |-> r.raised]
                       /\ upserts' = Append(upserts, [ticker |-> Ticker,
                                                      tuples |-> DataTuples(merged),
                                                      rejected |-> fail_at /= 0])
                       /\ all_processed_data' = Append(all_processed_data, merged)
                       /\ EndIteration("stored", common, dates)
                       /\ UNCHANGED <<analyzer, corrVars, conn, report, fetched>>

\* run_pipeline.py:51 the list is exhausted
LoopEnd ==
    /\ pc = "loop"
    /\ UNCHANGED scrapeVars
    /\ ticker_idx > Len(TICKERS_TO_PROCESS)
    /\ pc' = "analysis"
    /\ UNCHANGED <<dailyVars, corrVars, dbVars, pipeVars>>

\* run_pipeline.py:114-150
Analysis ==
    /\ pc = "analysis"
    /\ UNCHANGED scrapeVars
    /\ IF NothingProcessed(all_processed_data)
       THEN /\ report' = [report EXCEPT !.reached = TRUE, !.nothing = TRUE]
            /\ UNCHANGED corrVars
       ELSE LET df == Concat(all_processed_data)
                r  == CorrelationPerTicker(df, SENTIMENT_LAG_DAYS, PRICE_CHANGE_DAYS)
            IN  /\ analysis_df' = df
                /\ sentiment_lag' = SENTIMENT_LAG_DAYS
                /\ price_change_lag' = PRICE_CHANGE_DAYS
                /\ features' = r.features
                /\ correlations' = r.correlations
                /\ report' = [report EXCEPT !.reached = TRUE, !.correlation = TRUE,
                                            !.plotted = TickersOf(df)]
    /\ pc' = "close"
    /\ UNCHANGED <<dailyVars, dbVars, ticker_idx, conn, price_data, combined_df,
                   all_processed_data, outcome>>

\* run_pipeline.py:153-159
CloseConnection ==
    /\ pc = "close"
    /\ UNCHANGED scrapeVars
    /\ conn' = "closed"
    /\ pc' = "done"
    /\ UNCHANGED <<dailyVars, corrVars, dbVars, ticker_idx, price_data, combined_df,
                   all_processed_data, outcome, report>>

Next ==
    \/ ConnectAndSetup
    \/ Scrape
    \/ DailySentiment
    \/ FetchPrice
    \/ Combine
    \/ LoopEnd
    \/ Analysis
    \/ CloseConnection

Spec == Init /\ [][Next]_vars

-----------------------------------------------------------------------------
(* Specification SpecDaily: get_daily_sentiment applied to every bounded   *)
(* list of headlines.                                                      *)

Timestamps == [date : Dates, time : Times]

Headlines == [datetime : Timestamps, headline : Texts]

InitDaily ==
    /\ pc = "daily_input"
    /\ ScrapeIdle
    /\ analyzer \in {"ok", "None"}
    /\ headlines \in SeqsUpTo(Headlines, MaxHeadlines)
    /\ daily_sentiment = EmptySeries
    /\ CorrIdle
    /\ PipeIdle
    /\ DbIdle

CallGetDailySentiment ==
    /\ pc = "daily_input"
    /\ UNCHANGED scrapeVars
    /\ daily_sentiment' = get_daily_sentiment(analyzer, headlines)
    /\ pc' = "daily_done"
    /\ UNCHANGED <<analyzer, headlines, corrVars, pipeVars, dbVars>>

NextDaily == CallGetDailySentiment

SpecDaily == InitDaily /\ [][NextDaily]_vars

-----------------------------------------------------------------------------
(* C6 *)

\* headline i was scored: its text is empty (0.0 by convention) or the
\* analyzer exists and scores it
Scored(i) ==
    \/ headlines[i].headline = ""
    \/ analyzer = "ok" /\ headlines[i].headline \in {"surges", "plunges"}

ScoreOf(i) ==
    CASE headlines[i].headline = "surges"  -> 1
      [] headlines[i].headline = "plunges" -> -1
      [] OTHER                             -> 0

ScoredAt(d) ==
    {i \in 1..Len(headlines) : headlines[i].datetime.date = d /\ Scored(i)}

RECURSIVE SumOver(_, _)
SumOver(f, S) ==
    IF S = {} THEN 0
    ELSE LET x == CHOOSE y \in S : TRUE IN f[x] + SumOver(f, S \ {x})

\* C6: the result of get_daily_sentiment has exactly the calendar dates with
\* at least one successfully scored headline as its keys, each value is the
\* arithmetic mean of those headlines' scores (value * count = sum), headlines
\* whose scoring failed contribute nowhere, and empty input gives an empty
\* mapping.
C6_DailyMeanPerScoredDate ==
    pc = "daily_done" =>
        /\ DOMAIN daily_sentiment = {d \in Dates : ScoredAt(d) /= {}}
        /\ \A d \in DOMAIN daily_sentiment :
              LET S   == ScoredAt(d)
                  raw == [i \in 1..Len(headlines) |-> ScoreOf(i)]
              IN  /\ ~daily_sentiment[d].nan
                  /\ daily_sentiment[d].den > 0
                  /\ daily_sentiment[d].num * Cardinality(S)
                        = SumOver(raw, S) * daily_sentiment[d].den
        /\ (headlines = <<>> => daily_sentiment = EmptySeries)

\* two scored headlines with different scores on one date (one of them the
\* empty text, scored 0.0) and a headline whose scoring failed
C6_Witness ==
    /\ pc = "daily_done"
    /\ \E i, j, k \in 1..Len(headlines) :
          /\ i /= j
          /\ dt_date(headlines[i].datetime) = dt_date(headlines[j].datetime)
          /\ headlines[i].headline = "surges"
          /\ headlines[j].headline = ""
          /\ analyzer = "ok"
          /\ headlines[k].headline = "garbled"
          /\ daily_sentiment[dt_date(headlines[i].datetime)] = Rat(1, 2)

-----------------------------------------------------------------------------
(* Specifications SpecCorr and SpecPooled:                                 *)
(* calculate_sentiment_price_correlation applied to every bounded frame    *)
(* and pair of lags, per ticker (SpecCorr) and pooled (SpecPooled).        *)

CorrDays == 1..MaxDay

SentVals == {Rat(0, 1), Rat(1, 1)}

Frames ==
    UNION {[K -> [adj_close : PriceVals, sentiment_score : SentVals]] :
              K \in {S \in SUBSET (Tickers \X CorrDays) : Cardinality(S) <= MaxRows}}

InitCorr ==
    /\ pc = "corr_input"
    /\ ScrapeIdle
    /\ analysis_df \in Frames
    /\ sentiment_lag \in 0..MaxLag
    /\ price_change_lag \in 1..MaxLag
    /\ features = <<>>
    /\ correlations = NoCorrelations
    /\ DailyIdle
    /\ PipeIdle
    /\ DbIdle

CallPerTicker ==
    /\ pc = "corr_input"
    /\ UNCHANGED scrapeVars
    /\ LET r == CorrelationPerTicker(analysis_df, sentiment_lag, price_change_lag)
       IN  /\ features' = r.features
           /\ correlations' = r.correlations
    /\ pc' = "per_ticker_done"
    /\ UNCHANGED <<analysis_df, sentiment_lag, price_change_lag, dailyVars,
                   pipeVars, dbVars>>

CallPooled ==
    /\ pc = "corr_input"
    /\ UNCHANGED scrapeVars
    /\ \E order \in SortDateOrders(DOMAIN analysis_df) :
          LET r == CorrelationPooled(analysis_df, order, sentiment_lag, price_change_lag)
          IN  /\ features' = r.features
              /\ correlations' = r.correlations
    /\ pc' = "pooled_done"
    /\ UNCHANGED <<analysis_df, sentiment_lag, price_change_lag, dailyVars,
                   pipeVars, dbVars>>

NextCorr == CallPerTicker

SpecCorr == InitCorr /\ [][NextCorr]_vars

NextPooled == CallPooled

SpecPooled == InitCorr /\ [][NextPooled]_vars

-----------------------------------------------------------------------------
(* C2 - C5 (C2, C3, C5 under SpecCorr, C4 under SpecPooled): the pairs of  *)
(* the specification, built ticker by ticker from the input frame alone    *)

RECURSIVE AscendingDates(_)
AscendingDates(D) ==
    IF D = {} THEN <<>>
    ELSE LET m == CHOOSE x \in D : \A y \in D : x <= y
         IN  <<m>> \o AscendingDates(D \ {m})

\* the dates of ticker t's rows, ascending
DatesOfTicker(df, t) == AscendingDates({k[2] : k \in {q \in DOMAIN df : q[1] = t}})

Max(a, b) == IF a >= b THEN a ELSE b

\* the pair the specification forms at row position p of ticker t
SpecPair(df, t, p, slag, plag) ==
    LET ds == DatesOfTicker(df, t)
    IN  [ticker |-> t,
         date   |-> ds[p],
         x      |-> df[<<t, ds[p - slag]>>].sentiment_score,
         y      |-> Rat(df[<<t, ds[p]>>].adj_close - df[<<t, ds[p - plag]>>].adj_close,
                        df[<<t, ds[p - plag]>>].adj_close)]

SpecPairsOf(df, t, slag, plag) ==
    {SpecPair(df, t, p, slag, plag) :
        p \in (Max(slag, plag) + 1)..Len(DatesOfTicker(df, t))}

SpecPairs(df, slag, plag) ==
    UNION {SpecPairsOf(df, t, slag, plag) : t \in TickersOf(df)}

\* the pairs the code correlates: the complete rows of its working frame
CodePairs ==
    {[ticker |-> features[i].ticker,
      date   |-> features[i].date,
      x      |-> features[i].sentiment_lagged,
      y      |-> features[i].price_change] :
        i \in {j \in 1..Len(features) : Complete(features[j])}}

\* C2: in per-ticker mode the pairs entering the correlation are exactly
\* (sentiment[t - sentiment_lag], price[t]/price[t - price_change_lag] - 1) for
\* the row positions t >= max(sentiment_lag, price_change_lag) (0-based) of
\* each ticker's own date-sorted rows: the first max(lags) rows of a ticker
\* give no pair and no pair reads a row of another ticker.
C2_PerTickerPairs ==
    pc = "per_ticker_done" =>
        /\ CodePairs = SpecPairs(analysis_df, sentiment_lag, price_change_lag)
        /\ \A i \in 1..Len(features) :
              /\ Complete(features[i]) =>
                    /\ features[i].sent_src[1] = features[i].ticker
                    /\ features[i].base_src[1] = features[i].ticker
              /\ GroupPos(SortTickerDate(DOMAIN analysis_df), i)
                    <= Max(sentiment_lag, price_change_lag)
                 => ~Complete(features[i])

\* two tickers and different lags: a pair is formed for the first ticker, and
\* the first row of the second ticker, which follows it in the sorted frame,
\* forms none
C2_Witness ==
    /\ pc = "per_ticker_done"
    /\ sentiment_lag /= price_change_lag
    /\ \E i, j \in 1..Len(features) :
          /\ i < j
          /\ features[i].ticker = "AAPL" /\ Complete(features[i])
          /\ features[j].ticker = "MSFT" /\ ~Complete(features[j])

AllEqual(S) == \A a, b \in S : a = b

\* C3: a ticker with fewer than 2 valid pairs, or whose paired sentiments or
\* paired price changes are all equal (zero variance), gets NaN, which is not
\* the number 0; every ticker of the frame gets a result (nothing raises).
C3_UndefinedIsNaN ==
    pc = "per_ticker_done" =>
        /\ DOMAIN correlations = TickersOf(analysis_df)
        /\ \A t \in TickersOf(analysis_df) :
              LET P == SpecPairsOf(analysis_df, t, sentiment_lag, price_change_lag)
              IN  (\/ Cardinality(P) < 2
                   \/ AllEqual({q.x : q \in P})
                   \/ AllEqual({q.y : q \in P}))
                  => /\ correlations[t] = CorrNaN
                     /\ correlations[t] /= [nan |-> FALSE, sgn |-> 0, sq |-> Rat(0, 1)]

\* constant sentiment over a moving price, lags (0, 1): two pairs with
\* different price changes, and the result is NaN
C3_Witness ==
    /\ pc = "per_ticker_done"
    /\ sentiment_lag = 0
    /\ price_change_lag = 1
    /\ DOMAIN analysis_df = {<<"AAPL", 1>>, <<"AAPL", 2>>, <<"AAPL", 3>>}
    /\ \A d \in 1..3 : analysis_df[<<"AAPL", d>>].sentiment_score = Rat(1, 1)
    /\ Cardinality({q.y : q \in CodePairs}) = 2
    /\ correlations["AAPL"] = CorrNaN

\* C4: in pooled mode every pair takes its lagged sentiment and its price
\* change from rows of one ticker, so the pooled pairs are the union of the
\* pairs formed ticker by ticker.
C4_PooledPairsArePerTickerPairs ==
    pc = "pooled_done" =>
        /\ CodePairs = SpecPairs(analysis_df, sentiment_lag, price_change_lag)
        /\ \A i \in 1..Len(features) :
              Complete(features[i]) =>
                 /\ features[i].sent_src[1] = features[i].ticker
                 /\ features[i].base_src[1] = features[i].ticker

\* C5: a lag is a number of calendar days: the pair formed at a record dated d
\* reads the sentiment of date d - sentiment_lag and the price of date
\* d - price_change_lag, gaps between consecutive dates or not.
C5_LagIsCalendarDays ==
    pc = "per_ticker_done" =>
        \A i \in 1..Len(features) :
            Complete(features[i]) =>
               /\ features[i].sent_src[2] = features[i].date - sentiment_lag
               /\ features[i].base_src[2] = features[i].date - price_change_lag

-----------------------------------------------------------------------------
(* Specification SpecDB: insert_sentiment_data called again and again on   *)
(* the table, with every bounded batch and every answer of the sink.       *)

DbTuples ==
    [ticker : Tickers, date : 1..MaxDbDay, adj_close : PriceVals,
     sentiment_score : SentVals]

InitDB ==
    /\ pc = "db_ready"
    /\ ScrapeIdle
    /\ DbIdle
    /\ DailyIdle
    /\ CorrIdle
    /\ PipeIdle

CallInsert ==
    /\ pc \in {"db_ready", "db_returned"}
    /\ UNCHANGED scrapeVars
    /\ \E batch \in SeqsUpTo(DbTuples, MaxBatch) :
       \E fail_at \in SinkOutcomes(batch) :
          LET r == insert_sentiment_data(table, batch, fail_at)
          IN  /\ table' = r.table
              /\ db_before' = table
              /\ db_batch' = batch
              /\ db_fail_at' = fail_at
              /\ insert_result' = [returned |-> r.returned, raised |-> r.raised]
    /\ pc' = "db_returned"
    /\ UNCHANGED <<upserts, fetched, dailyVars, corrVars, pipeVars>>

NextDB == CallInsert

SpecDB == InitDB /\ [][NextDB]_vars

-----------------------------------------------------------------------------
(* C1, C7 - C10 *)

MergeCalledFor == {"KeyError", "no_overlap", "stored"}

\* C1: for every ticker whose sentiment and prices reach the merge, the merge
\* produces combined records whose dates are exactly the dates present in
\* both the daily sentiment and the price series.
C1_MergeIsInnerJoin ==
    \A i \in 1..Len(outcome) :
        outcome[i].why \in MergeCalledFor =>
            /\ outcome[i].why /= "KeyError"
            /\ outcome[i].combined = outcome[i].common

\* C7: once the run is over, every ticker of the list has been processed,
\* once and in list order, and the final analysis stage has been reached,
\* whatever happened to each ticker.
C7_EveryTickerThenAnalysis ==
    pc \in {"crashed", "done"} =>
        /\ [i \in 1..Len(outcome) |-> outcome[i].ticker] = TICKERS_TO_PROCESS
        /\ \A i \in 1..Len(outcome) : outcome[i].why /= "KeyError"
        /\ report.reached

SkipReasons == {"no_headlines", "no_sentiment", "no_price", "no_overlap"}

\* C8: a ticker without headlines, without daily sentiment, without price
\* points or without a date common to sentiment and prices is skipped: its
\* processing ends in one of the four `continue`s, no upsert is issued for it,
\* no record of it is in the accumulator, the correlation result or the plots.
C8_UnusableTickerSkipped ==
    \A i \in 1..Len(outcome) :
        outcome[i].common = {} =>
            /\ outcome[i].why \in SkipReasons
            /\ \A u \in 1..Len(upserts) : upserts[u].ticker /= outcome[i].ticker
            /\ \A a \in 1..Len(all_processed_data) :
                  outcome[i].ticker \notin TickersOf(all_processed_data[a])
            /\ outcome[i].ticker \notin DOMAIN correlations
            /\ outcome[i].ticker \notin report.plotted

HasData == \E a \in 1..Len(all_processed_data) : DOMAIN all_processed_data[a] /= {}

C10_RejectionSurfaced ==
    pc = "db_returned" =>
        ((insert_result.raised \/ insert_result.returned /= "None")
            <=> db_fail_at /= 0)

-----------------------------------------------------------------------------
(* C11 *)

\* the accumulator entry of ticker t holding exactly the dates in D
AccumulatedFor(t, D) ==
    {a \in 1..Len(all_processed_data) : DOMAIN all_processed_data[a] = {t} \X D}

-----------------------------------------------------------------------------
(* Specification SpecStore: on every bounded table that upserts can have   *)
(* left, one call of insert_sentiment_data with a batch as the             *)
(* orchestrator builds them (one ticker, one row per date, dates           *)
(* ascending), under every answer of the sink, and then a call of          *)
(* fetch_data_for_analysis.  A fetch only reads: what can follow it is     *)
(* what could follow the call before it.                                   *)

StoreDays == 1..MaxStoreDay

StoreValues ==
    {[adj_close |-> 1, sentiment_score |-> Rat(0, 1)],
     [adj_close |-> 2, sentiment_score |-> Rat(1, 1)]}

StoredTables ==
    UNION {[K -> StoreValues] : K \in SUBSET (Tickers \X StoreDays)}

StoreBatches ==
    {DataTuples([k \in {t} \X DOMAIN f |-> f[k[2]]]) :
        <<t, f>> \in Tickers \X UNION {[D -> StoreValues] : D \in SUBSET StoreDays}}

\* fetch everything, or fetch one (ticker, date)
FetchCalls ==
    {[tickers |-> NoTickers, start_date |-> NoDate, end_date |-> NoDate]}
    \cup {[tickers |-> <<k[1]>>, start_date |-> k[2], end_date |-> k[2]] :
              k \in Tickers \X StoreDays}

InitStore ==
    /\ pc = "store_ready"
    /\ ScrapeIdle
    /\ table \in StoredTables
    /\ upserts = <<>>
    /\ db_before = table   \* as after a call with an empty frame
    /\ db_batch = <<>>
    /\ db_fail_at = 0
    /\ insert_result = NoResult
    /\ fetched = NoFetch
    /\ DailyIdle
    /\ CorrIdle
    /\ PipeIdle

StoreInsert ==
    /\ pc = "store_ready"
    /\ UNCHANGED scrapeVars
    /\ \E batch \in StoreBatches :
       \E fail_at \in SinkOutcomes(batch) :
          LET r == insert_sentiment_data(table, batch, fail_at)
          IN  /\ table' = r.table
              /\ db_before' = table
              /\ db_batch' = batch
              /\ db_fail_at' = fail_at
              /\ insert_result' = [returned |-> r.returned, raised |-> r.raised]
    /\ pc' = "store_inserted"
    /\ UNCHANGED <<upserts, fetched, dailyVars, corrVars, pipeVars>>

StoreFetch ==
    /\ pc \in {"store_ready", "store_inserted"}
    /\ UNCHANGED scrapeVars
    /\ \E call \in FetchCalls, raised \in BOOLEAN :
          LET df == fetch_data_for_analysis(table, call.tickers, call.start_date,
                                            call.end_date, raised)
          IN  fetched' = [tickers |-> call.tickers, start_date |-> call.start_date,
                          end_date |-> call.end_date, raised |-> raised,
                          columns |-> df.columns, rows |-> df.rows]
    /\ pc' = "store_fetched"
    /\ UNCHANGED <<table, upserts, db_before, db_batch, db_fail_at, insert_result,
                   dailyVars, corrVars, pipeVars>>

NextStore ==
    \/ StoreInsert
    \/ StoreFetch

SpecStore == InitStore /\ [][NextStore]_vars

-----------------------------------------------------------------------------
(* C12, C13 (under SpecStore) *)

\* positions of the batch that carry key k
BatchAt(k) ==
    {i \in 1..Len(db_batch) : <<db_batch[i].ticker, db_batch[i].date>> = k}

\* key k was upserted by the last call, and the sink accepted the batch
UpsertedLast(k) == db_fail_at = 0 /\ BatchAt(k) /= {}

\* the keys that some successful upsert has written
EverUpserted ==
    {k \in Tickers \X StoreDays : UpsertedLast(k) \/ k \in DOMAIN db_before}

\* price and sentiment of the most recent successful upsert of key k
MostRecent(k) ==
    IF UpsertedLast(k)
    THEN LET i == CHOOSE j \in BatchAt(k) : \A l \in BatchAt(k) : l <= j
         IN  [adj_close |-> db_batch[i].adj_close,
              sentiment_score |-> db_batch[i].sentiment_score]
    ELSE db_before[k]

\* the keys a fetch asks for: every key, or the one (ticker, date)
Asked ==
    IF fetched.tickers = NoTickers THEN Tickers \X StoreDays
    ELSE {<<fetched.tickers[1], fetched.start_date>>}

\* the rows of the fetched frame that carry key k
FetchedAt(k) ==
    {i \in 1..Len(fetched.rows) :
        fetched.rows[i].ticker = k[1] /\ fetched.rows[i].date.date = k[2]}

\* C12: a fetch that the sink answers returns exactly one row for every key
\* asked for that a successful upsert has written, and no other row; the row
\* carries the price and sentiment of the most recent upsert of its key.
\* Upserting records that are stored already, with the same values, leaves
\* the table as it was.
C12_FetchReturnsMostRecentUpsert ==
    /\ (pc = "store_fetched" /\ ~fetched.raised) =>
          /\ Len(fetched.rows) = Cardinality(Asked \cap EverUpserted)
          /\ \A k \in Asked \cap EverUpserted :
                /\ Cardinality(FetchedAt(k)) = 1
                /\ \A i \in FetchedAt(k) :
                      /\ fetched.rows[i].adj_close = MostRecent(k).adj_close
                      /\ fetched.rows[i].sentiment_score = MostRecent(k).sentiment_score
    /\ (/\ pc = "store_inserted"
        /\ db_fail_at = 0
        /\ \A i \in 1..Len(db_batch) :
              LET k == <<db_batch[i].ticker, db_batch[i].date>>
              IN  /\ k \in DOMAIN db_before
                  /\ db_before[k].adj_close = db_batch[i].adj_close
                  /\ db_before[k].sentiment_score = db_batch[i].sentiment_score)
       => table = db_before

\* a key stored with one price is upserted with another and fetched by
\* ticker and date: one row, with the new price
C12_Witness ==
    /\ pc = "store_fetched"
    /\ ~fetched.raised
    /\ fetched.tickers /= NoTickers
    /\ Len(fetched.rows) = 1
    /\ \E k \in Asked :
          /\ UpsertedLast(k)
          /\ k \in DOMAIN db_before
          /\ db_before[k].adj_close /= fetched.rows[1].adj_close

\* C13: a batch is stored whole or not at all.  When the sink rejected any
\* part of it the table is the table of before the call; when the sink
\* accepted it, each of its N records is stored with its values, the table
\* has N keys more than the stored keys it did not overwrite, and every
\* other row is as it was.
C13_BatchAllOrNothing ==
    pc = "store_inserted" =>
        /\ db_fail_at /= 0 => table = db_before
        /\ db_fail_at = 0 =>
              /\ \A i \in 1..Len(db_batch) :
                    LET k == <<db_batch[i].ticker, db_batch[i].date>>
                    IN  /\ k \in DOMAIN table
                        /\ table[k].adj_close = db_batch[i].adj_close
                        /\ table[k].sentiment_score = db_batch[i].sentiment_score
              /\ DOMAIN table =
                    DOMAIN db_before
                    \cup {<<db_batch[i].ticker, db_batch[i].date>> : i \in 1..Len(db_batch)}
              /\ \A k \in DOMAIN db_before : BatchAt(k) = {} => table[k] = db_before[k]

\* the sink raised at the second of two records, after it had taken the
\* first, which was not stored before: the table is as before the call
C13_Witness ==
    /\ pc = "store_inserted"
    /\ Len(db_batch) = 2
    /\ db_fail_at = 2
    /\ <<db_batch[1].ticker, db_batch[1].date>> \notin DOMAIN db_before
    /\ table = db_before

-----------------------------------------------------------------------------
(* scraper.py: scrape_finviz_headlines, the walk over the news table       *)
(*                                                                         *)
(* The text of a row's first cell is a date part and a time part, joined   *)
(* by a blank when both are there: "Jan-01-24 09:30AM", "09:30AM",         *)
(* "Jan-01-24", "Today 09:30AM", "".                                       *)

DateParts == {"", "Jan-01-24", "Jan-02-24", "Jan-32-24"}

TimeParts == {"", "09:30AM", "Today 09:30AM"}

\* ' ' in date_time_str
contains_blank(c) ==
    (c.date_part /= "" /\ c.time_part /= "") \/ c.time_part = "Today 09:30AM"

\* '-' in date_time_str
contains_dash(c) == c.date_part /= ""

\* ':' in date_time_str
contains_colon(c) == c.time_part /= ""

\* the day that '%b-%d-%y' reads; 0: no such day, ValueError
strptime_date(s) ==
    CASE s = "Jan-01-24" -> 1
      [] s = "Jan-02-24" -> 2
      [] OTHER -> 0

\* datetime.strptime(s, '%b-%d-%y %I:%M%p') raises ValueError
strptime_raises(date_part, time_part) ==
    strptime_date(date_part) = 0 \/ time_part \notin Times

\* datetime.strptime(s, '%b-%d-%y %I:%M%p')
strptime(date_part, time_part) ==
    [date |-> strptime_date(date_part), time |-> time_part]

strftime_stale(dt) == "Jan-01-24"

\* dt_object.strftime('%b-%d-%y')
strftime_date(dt) ==
    CASE dt.date = 1 -> "Jan-01-24"
      [] dt.date = 2 -> "Jan-02-24"

\* a <tr> with two <td>, or another row (one cell)
NewsRows ==
    {[cells |-> 1, date_part |-> "", time_part |-> "", headline |-> ""]}
    \cup [cells : {2}, date_part : DateParts, time_part : TimeParts,
          headline : {"surges"}]

\* scraper.py:38-62 one row: what is appended, what is remembered
process_row(row, last) ==
    LET skip == [emit |-> <<>>, last |-> last]
    IN  IF row.cells /= 2 THEN skip
        ELSE IF contains_blank(row) /\ contains_dash(row)
        THEN IF strptime_raises(row.date_part, row.time_part) THEN skip
             ELSE LET dt_object == strptime(row.date_part, row.time_part)
                  IN  [emit |-> <<[datetime |-> dt_object, headline |-> row.headline]>>,
                       last |-> strftime_date(dt_object)]
        ELSE IF contains_colon(row) /\ last /= "None"
        THEN IF strptime_raises(last, row.time_part) THEN skip
             ELSE [emit |-> <<[datetime |-> strptime(last, row.time_part),
                               headline |-> row.headline]>>,
                   last |-> last]
        ELSE skip

-----------------------------------------------------------------------------
(* Specification SpecScrape: scrape_finviz_headlines walking every bounded *)
(* news table, one row per step.                                           *)

InitScrape ==
    /\ pc = "scrape_rows"
    /\ news_table \in SeqsUpTo(NewsRows, MaxNewsRows)
    /\ row_idx = 1
    /\ last_date_str = "None"
    /\ DailyIdle
    /\ CorrIdle
    /\ PipeIdle
    /\ DbIdle

\* scraper.py:37-62
ScrapeRow ==
    /\ pc = "scrape_rows"
    /\ row_idx <= Len(news_table)
    /\ LET r == process_row(news_table[row_idx], last_date_str)
       IN  /\ headlines' = headlines \o r.emit
           /\ last_date_str' = r.last
    /\ row_idx' = row_idx + 1
    /\ UNCHANGED <<pc, news_table, analyzer, daily_sentiment, corrVars, pipeVars, dbVars>>

\* scraper.py:64-66
ScrapeReturn ==
    /\ pc = "scrape_rows"
    /\ row_idx > Len(news_table)
    /\ pc' = "scrape_returned"
    /\ UNCHANGED <<dailyVars, corrVars, pipeVars, dbVars, scrapeVars>>

NextScrape ==
    \/ ScrapeRow
    \/ ScrapeReturn

SpecScrape == InitScrape /\ [][NextScrape]_vars

-----------------------------------------------------------------------------
(* C14 *)

\* row i carries an explicit date and time that parse
DatedRow(i) ==
    /\ news_table[i].cells = 2
    /\ news_table[i].date_part \in {"Jan-01-24", "Jan-02-24"}
    /\ news_table[i].time_part \in Times

\* row i carries a time alone, which parses
TimeOnlyRow(i) ==
    /\ news_table[i].cells = 2
    /\ news_table[i].date_part = ""
    /\ news_table[i].time_part \in Times

\* the nearest dated row before row i; 0: none
Anchor(i) ==
    IF \E j \in 1..(i - 1) : DatedRow(j)
    THEN CHOOSE j \in 1..(i - 1) :
            DatedRow(j) /\ \A l \in (j + 1)..(i - 1) : ~DatedRow(l)
    ELSE 0

EmittingRows(n) ==
    {i \in 1..n : DatedRow(i) \/ (TimeOnlyRow(i) /\ Anchor(i) /= 0)}

\* the headline row i is to emit
HeadlineOf(i) ==
    [datetime |->
        [date |-> IF news_table[IF DatedRow(i) THEN i ELSE Anchor(i)].date_part
                     = "Jan-01-24" THEN 1 ELSE 2,
         time |-> news_table[i].time_part],
     headline |-> news_table[i].headline]

\* C14: at every point of the walk, the headlines emitted so far are, in
\* document order, those of the dated rows and of the time-only rows that
\* follow a dated row, a time-only row carrying the date of the nearest
\* dated row before it; any other row emits nothing; and the remembered
\* date is that of the nearest dated row so far, or none.
C14_TimeOnlyRowsTakeNearestDate ==
    pc \in {"scrape_rows", "scrape_returned"} =>
        LET n == row_idx - 1
            expected == [i \in 1..n |-> IF i \in EmittingRows(n) THEN HeadlineOf(i)
                                         ELSE [datetime |-> [date |-> 0, time |-> ""],
                                               headline |-> ""]]
        IN  /\ headlines = FilterIdx(expected, EmittingRows(n), 1)
            /\ last_date_str = IF Anchor(n + 1) = 0 THEN "None"
                               ELSE news_table[Anchor(n + 1)].date_part

\* a row dated Jan-02-24, a row whose date does not parse, a time-only row:
\* two headlines, the second on day 2
C14_Witness ==
    /\ pc = "scrape_returned"
    /\ Len(news_table) = 3
    /\ DatedRow(1)
    /\ news_table[1].date_part = "Jan-02-24"
    /\ news_table[2].cells = 2
    /\ news_table[2].date_part = "Jan-32-24"
    /\ news_table[2].time_part = "09:30AM"
    /\ TimeOnlyRow(3)
    /\ Len(headlines) = 2
    /\ headlines[2].datetime.date = 2
    /\ last_date_str = "Jan-02-24"

====
